---------------------------- MODULE Spec2Model ----------------------------
(***************************************************************************)
(* A model of the three agents of ai-cms:                                  *)
(*   src/agents/sitemap_agent.py      SitemapAgent.generate_sitemap        *)
(*   src/agents/brand_guide_agent.py  BrandGuideAgent.generate_style_guide *)
(*   src/agents/code_action_agent.py  CodeActionAgent._generate_*          *)
(*                                                                         *)
(* Texts are TLA+ strings handled with Python's indexing (0-based find,    *)
(* half-open slices).  SANY's lexer rejects the backquote inside a string  *)
(* literal, so the model writes the backquote as "~": Fence is the three   *)
(* backquotes of a Markdown code fence.                                    *)
(*                                                                         *)
(* JSON values are records of one shape, so that any two compare:          *)
(*   kind "str"  : str holds the text          kind "null": None           *)
(*   kind "map"  : map is a function from keys (strings) to values         *)
(*   kind "list" : list is a sequence of values                            *)
(*   kind "bool" : str is "True" or "False"                                *)
(* A Python dict's key order is not modelled: dict equality ignores it.    *)
(***************************************************************************)
EXTENDS Integers, Sequences, FiniteSets, TLC

(***************************************************************************)
(* Python string operations                                                *)
(***************************************************************************)

Char(s, i) == SubSeq(s, i, i)

Min(a, b) == IF a <= b THEN a ELSE b

\* s[a:b] for 0 <= a, 0 <= b: Python clamps b to len(s).
PySlice(s, a, b) == SubSeq(s, a + 1, Min(b, Len(s)))

RECURSIVE PyFind(_, _, _)
\* str.find(sub, start): the lowest index i >= start where sub occurs, -1 when
\* there is none.
PyFind(s, sub, start) ==
    IF start + Len(sub) > Len(s) THEN -1
    ELSE IF SubSeq(s, start + 1, start + Len(sub)) = sub THEN start
    ELSE PyFind(s, sub, start + 1)

RECURSIVE RFindFrom(_, _, _)
RFindFrom(s, sub, i) ==
    IF i < 0 THEN -1
    ELSE IF SubSeq(s, i + 1, i + Len(sub)) = sub THEN i
    ELSE RFindFrom(s, sub, i - 1)

\* str.rfind(sub): the highest index where sub occurs, -1 when there is none.
PyRFind(s, sub) == RFindFrom(s, sub, Len(s) - Len(sub))

\* sub in s
Contains(s, sub) == PyFind(s, sub, 0) >= 0

Whitespace == {" ", "\n", "\t", "\r"}

RECURSIVE LastInk(_, _)
\* The last place at or before i that holds no whitespace, 0 when there is none.
LastInk(s, i) ==
    IF i >= 1 /\ Char(s, i) \in Whitespace THEN LastInk(s, i - 1) ELSE i

RECURSIVE FirstInk(_, _)
\* The first place at or after i that holds no whitespace, Len(s) + 1 when
\* there is none.
FirstInk(s, i) ==
    IF i <= Len(s) /\ Char(s, i) \in Whitespace THEN FirstInk(s, i + 1) ELSE i

\* str.strip(): leading and trailing whitespace removed.
Strip(s) == SubSeq(s, FirstInk(s, 1), LastInk(s, Len(s)))

LowerLetters == "abcdefghijklmnopqrstuvwxyz"

UpperLetters == "ABCDEFGHIJKLMNOPQRSTUVWXYZ"

UpperChar(c) ==
    IF \E i \in 1 .. Len(LowerLetters) : Char(LowerLetters, i) = c
    THEN LET i == CHOOSE j \in 1 .. Len(LowerLetters) : Char(LowerLetters, j) = c
         IN  Char(UpperLetters, i)
    ELSE c

LowerChar(c) ==
    IF \E i \in 1 .. Len(UpperLetters) : Char(UpperLetters, i) = c
    THEN LET i == CHOOSE j \in 1 .. Len(UpperLetters) : Char(UpperLetters, j) = c
         IN  Char(LowerLetters, i)
    ELSE c

RECURSIVE MapChars(_, _)
\* which = "lower": str.lower(); which = "upper": str.upper().
MapChars(s, which) ==
    IF s = "" THEN ""
    ELSE (IF which = "lower" THEN LowerChar(Char(s, 1)) ELSE UpperChar(Char(s, 1)))
         \o MapChars(SubSeq(s, 2, Len(s)), which)

\* str.lower()
PyLower(s) == MapChars(s, "lower")

\* str.capitalize(): first character upper-cased, the rest lower-cased.
PyCapitalize(s) ==
    IF s = "" THEN "" ELSE UpperChar(Char(s, 1)) \o PyLower(SubSeq(s, 2, Len(s)))

RECURSIVE PyReplace(_, _, _)
\* str.replace(old, new) for a one-character old.
PyReplace(s, old, new) ==
    IF s = "" THEN ""
    ELSE (IF Char(s, 1) = old THEN new ELSE Char(s, 1))
         \o PyReplace(SubSeq(s, 2, Len(s)), old, new)

RECURSIVE PySplit(_, _)
\* str.split(sep) for a one-character sep: the sequence of the pieces.
PySplit(s, sep) ==
    LET i == PyFind(s, sep, 0)
    IN  IF i < 0 THEN <<s>>
        ELSE <<PySlice(s, 0, i)>> \o PySplit(PySlice(s, i + 1, Len(s)), sep)

RECURSIVE PyJoin(_, _)
\* sep.join(parts)
PyJoin(sep, parts) ==
    IF parts = <<>> THEN ""
    ELSE IF Len(parts) = 1 THEN parts[1]
    ELSE parts[1] \o sep \o PyJoin(sep, Tail(parts))

(***************************************************************************)
(* JSON values                                                             *)
(***************************************************************************)

NoMap == <<>>

JNull == [kind |-> "null", str |-> "", map |-> NoMap, list |-> <<>>]

JStr(s) == [kind |-> "str", str |-> s, map |-> NoMap, list |-> <<>>]

JBool(b) == [kind |-> "bool", str |-> IF b THEN "True" ELSE "False",
             map |-> NoMap, list |-> <<>>]

JMap(f) == [kind |-> "map", str |-> "", map |-> f, list |-> <<>>]

JList(q) == [kind |-> "list", str |-> "", map |-> NoMap, list |-> q]

EmptyDict == JMap(NoMap)

IsMap(v) == v.kind = "map"

\* d.keys()
Keys(v) == DOMAIN v.map

\* key in d, for a dict d
HasKey(v, k) == IsMap(v) /\ k \in DOMAIN v.map

\* d[k] = x, as a new value
SetKey(v, k, x) == JMap([j \in (DOMAIN v.map) \cup {k} |-> IF j = k THEN x ELSE v.map[j]])

\* d.get(k, default), for a dict d
Get(v, k, default) == IF k \in DOMAIN v.map THEN v.map[k] ELSE default

(***************************************************************************)
(* json.loads and json.dumps(..., indent=2), on the JSON subset the model  *)
(* writes: objects, arrays, string literals without escapes, null, true    *)
(* and false.  Numbers and escape sequences do not occur in its texts.     *)
(***************************************************************************)

\* The first place at or after i (1-based) that holds no whitespace.
SkipWs(t, i) == FirstInk(t, i)

ParseFail == [ok |-> FALSE, val |-> JNull, next |-> 0]

Parsed(v, n) == [ok |-> TRUE, val |-> v, next |-> n]

\* A string literal whose opening quote is at i: up to the next quote. A raw
\* control character inside it is an error (json's strict mode).
ParseString(t, i) ==
    LET j == PyFind(t, "\"", i)
        body == SubSeq(t, i + 1, j)
    IN  IF j < 0 THEN ParseFail
        ELSE IF \E k \in 1 .. Len(body) : Char(body, k) \in {"\n", "\t", "\r"}
             THEN ParseFail
        ELSE Parsed(JStr(body), j + 2)

\* Whether t holds word at place i.
LiteralAt(t, i, word) == SubSeq(t, i, Min(i + Len(word) - 1, Len(t))) = word

RECURSIVE ParseValue(_, _), ParseMembers(_, _, _), ParseItems(_, _, _)
ParseValue(t, i0) ==
    LET i == SkipWs(t, i0)
    IN  IF i > Len(t) THEN ParseFail
        ELSE IF Char(t, i) = "{" THEN
            LET j == SkipWs(t, i + 1)
            IN  IF j <= Len(t) /\ Char(t, j) = "}" THEN Parsed(EmptyDict, j + 1)
                ELSE ParseMembers(t, j, NoMap)
        ELSE IF Char(t, i) = "[" THEN
            LET j == SkipWs(t, i + 1)
            IN  IF j <= Len(t) /\ Char(t, j) = "]" THEN Parsed(JList(<<>>), j + 1)
                ELSE ParseItems(t, j, <<>>)
        ELSE IF Char(t, i) = "\"" THEN ParseString(t, i)
        ELSE IF LiteralAt(t, i, "null") THEN Parsed(JNull, i + 4)
        ELSE IF LiteralAt(t, i, "true") THEN Parsed(JBool(TRUE), i + 4)
        ELSE IF LiteralAt(t, i, "false") THEN Parsed(JBool(FALSE), i + 5)
        ELSE ParseFail

\* The members of an object from place i (no whitespace at i) on; a key given
\* twice keeps its last value.
ParseMembers(t, i, acc) ==
    IF i > Len(t) \/ Char(t, i) # "\"" THEN ParseFail
    ELSE
    LET k == ParseString(t, i)
        c == SkipWs(t, k.next)
        v == ParseValue(t, c + 1)
        e == SkipWs(t, v.next)
        acc2 == (k.val.str :> v.val) @@ acc
    IN  IF ~k.ok THEN ParseFail
        ELSE IF c > Len(t) \/ Char(t, c) # ":" THEN ParseFail
        ELSE IF ~v.ok THEN ParseFail
        ELSE IF e > Len(t) THEN ParseFail
        ELSE IF Char(t, e) = "}" THEN Parsed(JMap(acc2), e + 1)
        ELSE IF Char(t, e) = "," THEN ParseMembers(t, SkipWs(t, e + 1), acc2)
        ELSE ParseFail

\* The items of an array from place i on.
ParseItems(t, i, acc) ==
    LET v == ParseValue(t, i)
        e == SkipWs(t, v.next)
        acc2 == Append(acc, v.val)
    IN  IF ~v.ok THEN ParseFail
        ELSE IF e > Len(t) THEN ParseFail
        ELSE IF Char(t, e) = "]" THEN Parsed(JList(acc2), e + 1)
        ELSE IF Char(t, e) = "," THEN ParseItems(t, e + 1, acc2)
        ELSE ParseFail

\* json.loads(t): ok is FALSE where json.loads raises (no value, or extra data
\* after it).
Loads(t) ==
    LET r == ParseValue(t, 1)
    IN  IF r.ok /\ SkipWs(t, r.next) > Len(t) THEN r ELSE ParseFail

RECURSIVE Spaces(_)
Spaces(n) == IF n <= 0 THEN "" ELSE " " \o Spaces(n - 1)

\* The number of spaces json.dump is given as indent.
JsonIndent == 2

RECURSIVE Dumps(_, _), DumpMembers(_, _, _), DumpItems(_, _)
\* json.dumps(v, indent=2), v nested level deep.
Dumps(v, level) ==
    CASE v.kind = "str"  -> "\"" \o v.str \o "\""
      [] v.kind = "null" -> "null"
      [] v.kind = "bool" -> IF v.str = "True" THEN "true" ELSE "false"
      [] v.kind = "map"  ->
            IF DOMAIN v.map = {} THEN "{}"
            ELSE "{\n" \o DumpMembers(v.map, DOMAIN v.map, level + 1)
                 \o "\n" \o Spaces(JsonIndent * level) \o "}"
      [] v.kind = "list" ->
            IF v.list = <<>> THEN "[]"
            ELSE "[\n" \o DumpItems(v.list, level + 1)
                 \o "\n" \o Spaces(JsonIndent * level) \o "]"

DumpMembers(f, ks, level) ==
    LET k == CHOOSE x \in ks : TRUE
        rest == ks \ {k}
    IN  Spaces(JsonIndent * level) \o "\"" \o k \o "\": " \o Dumps(f[k], level)
        \o (IF rest = {} THEN "" ELSE ",\n" \o DumpMembers(f, rest, level))

DumpItems(q, level) ==
    Spaces(JsonIndent * level) \o Dumps(q[1], level)
    \o (IF Len(q) = 1 THEN "" ELSE ",\n" \o DumpItems(Tail(q), level))

(***************************************************************************)
(* The hardcoded default documents                                         *)
(***************************************************************************)

\* A section descriptor of a sitemap.
Section(type, description) ==
    JMap(("type" :> JStr(type)) @@ ("description" :> JStr(description)))

_create_default_sitemap(name) ==
    JMap(   ("Home" :> JList(<< Section("hero", "Welcome to " \o name),
                                Section("features", "Highlight key features or services") >>))
         @@ ("About" :> JList(<< Section("content", "About the company") >>))
         @@ ("Contact" :> JList(<< Section("contact_form", "Contact form and information") >>)))

_create_default_brand_guide(name) ==
    JMap(   ("colors" :> JMap(   ("primary" :> JStr("#3B82F6"))
                              @@ ("secondary" :> JStr("#10B981"))
                              @@ ("accent" :> JStr("#F59E0B"))
                              @@ ("background" :> JStr("#FFFFFF"))
                              @@ ("text" :> JStr("#1F2937"))))
         @@ ("typography" :> JMap(   ("headings" :> JStr("Playfair Display, serif"))
                                  @@ ("body" :> JStr("Inter, sans-serif"))))
         @@ ("ui_style" :> JStr("Modern and clean"))
         @@ ("components" :> JMap(
                ("buttons" :> JMap(
                    ("primary" :> JMap(   ("background" :> JStr("#3B82F6"))
                                       @@ ("text" :> JStr("#FFFFFF"))
                                       @@ ("border_radius" :> JStr("0.375rem"))))
                 @@ ("secondary" :> JMap(   ("background" :> JStr("transparent"))
                                         @@ ("text" :> JStr("#3B82F6"))
                                         @@ ("border" :> JStr("1px solid #3B82F6"))
                                         @@ ("border_radius" :> JStr("0.375rem"))))))
             @@ ("cards" :> JMap(   ("background" :> JStr("#FFFFFF"))
                                 @@ ("border_radius" :> JStr("0.5rem"))
                                 @@ ("shadow" :> JStr("0 4px 6px -1px rgba(0, 0, 0, 0.1)"))))
             @@ ("forms" :> JMap(   ("input_border" :> JStr("1px solid #D1D5DB"))
                                 @@ ("input_border_radius" :> JStr("0.375rem"))
                                 @@ ("input_padding" :> JStr("0.5rem 0.75rem")))))))

(***************************************************************************)
(* JSON extraction (generate_sitemap, generate_style_guide)                *)
(***************************************************************************)

\* json_start = response_text.find('{'), with the mutant that looks for the
\* last '{'.
JsonStartLast(response_text) == PyRFind(response_text, "{")

JsonStart(response_text) == PyFind(response_text, "{", 0)

\* json_end = response_text.rfind('}') + 1
JsonEnd(response_text) == PyRFind(response_text, "}") + 1

\* The result of a try block: raised says that an exception left it.
Outcome(raised, doc) == [raised |-> raised, doc |-> doc]

\* Variant of ExtractJson: without a parsed document it yields None.
ExtractJsonNoneFallback(response, default) ==
    LET response_text == response[1]
        json_start == JsonStart(response_text)
        json_end == JsonEnd(response_text)
        parsed == Loads(PySlice(response_text, json_start, json_end))
    IN  IF response = <<>> THEN Outcome(FALSE, JNull)
        ELSE IF json_start >= 0 /\ json_end > json_start /\ parsed.ok
             THEN Outcome(FALSE, parsed.val)
             ELSE Outcome(FALSE, JNull)

\* Mutants of ExtractJson: the fallback is an empty document; the try has no
\* except, so that a failed parse leaves the step as an exception.
ExtractJsonEmptyFallback(response, default) ==
    LET response_text == response[1]
        json_start == JsonStart(response_text)
        json_end == JsonEnd(response_text)
        parsed == Loads(PySlice(response_text, json_start, json_end))
    IN  IF response = <<>> THEN Outcome(FALSE, EmptyDict)
        ELSE IF json_start >= 0 /\ json_end > json_start
             THEN (IF parsed.ok THEN Outcome(FALSE, parsed.val)
                   ELSE Outcome(FALSE, EmptyDict))
             ELSE Outcome(FALSE, EmptyDict)

ExtractJsonNoExcept(response, default) ==
    LET response_text == response[1]
        json_start == JsonStart(response_text)
        json_end == JsonEnd(response_text)
        parsed == Loads(PySlice(response_text, json_start, json_end))
    IN  IF response = <<>> THEN Outcome(TRUE, JNull)
        ELSE IF json_start >= 0 /\ json_end > json_start
             THEN (IF parsed.ok THEN Outcome(FALSE, parsed.val)
                   ELSE Outcome(TRUE, JNull))
             ELSE Outcome(FALSE, default)

\* The try block that extracts the document from the response: response is
\* response.content, a list that holds the text or nothing. response.content[0]
\* of an empty list and a json.loads that raises both end in the except branch.
ExtractJson(response, default) ==
    LET response_text == response[1]
        json_start == JsonStart(response_text)
        json_end == JsonEnd(response_text)
        parsed == Loads(PySlice(response_text, json_start, json_end))
    IN  IF response = <<>> THEN Outcome(FALSE, default)
        ELSE IF json_start >= 0 /\ json_end > json_start
             THEN (IF parsed.ok THEN Outcome(FALSE, parsed.val)
                   ELSE Outcome(FALSE, default))
             ELSE Outcome(FALSE, default)

(***************************************************************************)
(* The colour-preference overlay of generate_style_guide                   *)
(***************************************************************************)

\* Mutants of OverlayColors: a preference key that colors lacks is added; the
\* preferences replace colors as a whole.
OverlayColorsAdding(colors, color_preferences) ==
    JMap([k \in (DOMAIN colors.map) \cup (DOMAIN color_preferences.map) |->
            IF k \in DOMAIN color_preferences.map
            THEN color_preferences.map[k] ELSE colors.map[k]])

OverlayColorsReplacing(colors, color_preferences) == color_preferences

\* The loop over color_preferences.items() for a colors that is a dict: a key
\* that colors holds gets the preferred value.
OverlayColors(colors, color_preferences) ==
    JMap([k \in DOMAIN colors.map |->
            IF k \in DOMAIN color_preferences.map
            THEN color_preferences.map[k] ELSE colors.map[k]])

\* color_key in brand_guide["colors"] for some preference key: on a str it is
\* the substring test, on a list the membership test.
SomeKeyIn(colors, color_preferences) ==
    \E k \in DOMAIN color_preferences.map :
        CASE colors.kind = "str"  -> Contains(colors.str, k)
          [] colors.kind = "list" -> \E i \in 1 .. Len(colors.list) : colors.list[i] = JStr(k)
          [] OTHER -> FALSE

\* Lines 112-116. The test "in" raises TypeError on None and on a bool; the
\* item assignment raises TypeError on a str and on a list.
Overlay(brand_guide, color_preferences) ==
    IF color_preferences.map = NoMap \/ ~HasKey(brand_guide, "colors")
    THEN Outcome(FALSE, brand_guide)
    ELSE LET colors == brand_guide.map["colors"]
         IN  CASE colors.kind = "map" ->
                    Outcome(FALSE, SetKey(brand_guide, "colors",
                                          OverlayColors(colors, color_preferences)))
               [] colors.kind \in {"str", "list"} ->
                    IF SomeKeyIn(colors, color_preferences)
                    THEN Outcome(TRUE, brand_guide)
                    ELSE Outcome(FALSE, brand_guide)
               [] OTHER -> Outcome(TRUE, brand_guide)

(***************************************************************************)
(* Files                                                                   *)
(***************************************************************************)

NoFile == [exists |-> FALSE, text |-> ""]

FileOf(text) == [exists |-> TRUE, text |-> text]

\* How a write ends: "ok"; "open_failed", open(path, 'w') raises and the file
\* is as it was; "write_failed", the file was opened (created or truncated)
\* and the write raised after cut characters.
IoOutcome(kind, cut) == [kind |-> kind, cut |-> cut]

\* The places a failed write is cut at: at once and half-way.
Cuts(text) == {0, Len(text) \div 2}

IoOutcomes(text) ==
    {IoOutcome("ok", Len(text)), IoOutcome("open_failed", 0)}
    \cup {IoOutcome("write_failed", n) : n \in Cuts(text)}

\* Mutant of WriteFile: the file is opened for appending.
WriteFileAppend(old, text, io) ==
    CASE io.kind = "ok" -> FileOf(old.text \o text)
      [] io.kind = "open_failed" -> old
      [] io.kind = "write_failed" -> FileOf(old.text \o SubSeq(text, 1, io.cut))

\* with open(path, 'w') as f: f.write(text)
WriteFile(old, text, io) ==
    CASE io.kind = "ok" -> FileOf(text)
      [] io.kind = "open_failed" -> old
      [] io.kind = "write_failed" -> FileOf(SubSeq(text, 1, io.cut))

\* json.dump(document, f, indent=2): the text written.
SaveText(document) == Dumps(document, 0)

\* CodeActionAgent._load_json: the document of the file, {} when open or
\* json.load raises.
_load_json(file, read_ok) ==
    LET parsed == Loads(file.text)
    IN  IF ~file.exists \/ ~read_ok THEN EmptyDict
        ELSE IF parsed.ok THEN parsed.val
        ELSE EmptyDict

\* edit_sitemap, edit_style_guide: {} when the file is missing, else the
\* document the file holds, {} when reading it raises.
edit_document(file, read_ok) ==
    LET parsed == Loads(file.text)
    IN  IF ~file.exists THEN EmptyDict
        ELSE IF ~read_ok THEN EmptyDict
        ELSE IF parsed.ok THEN parsed.val
        ELSE EmptyDict

(***************************************************************************)
(* Code extraction (_generate_component_code, _generate_page,              *)
(* _generate_layout)                                                       *)
(***************************************************************************)

\* The three backquotes of a code fence.
Fence == "~~~"

\* The characters after the opening fence searched for "typescript".
TagWindow == 20

\* code_end = response_text.rfind(three backquotes)
CodeEnd(response_text) == PyRFind(response_text, Fence)

\* code_start: after the opening fence and, when "typescript" stands in the 20
\* characters that follow it, after the end of that line.
CodeStart(response_text) ==
    LET code_start == PyFind(response_text, Fence, 0) + 3
    IN  IF Contains(PySlice(response_text, code_start, code_start + TagWindow),
                    "typescript")
        THEN PyFind(response_text, "\n", code_start) + 1
        ELSE code_start

CodeOutcome(found, code) == [found |-> found, code |-> code]

\* Mutant of ExtractCode: a text without a fence is taken whole.
ExtractCodeWholeText(response) ==
    LET response_text == response[1]
        code_start == CodeStart(response_text)
        code_end == CodeEnd(response_text)
    IN  IF response = <<>> THEN CodeOutcome(FALSE, "")
        ELSE IF code_start >= 3 /\ code_end > code_start
             THEN CodeOutcome(TRUE, Strip(PySlice(response_text, code_start, code_end)))
             ELSE CodeOutcome(TRUE, Strip(response_text))

\* The try block that extracts the code: found is FALSE on the path that the
\* source calls "no code is found" and in the except branch.
ExtractCode(response) ==
    LET response_text == response[1]
        code_start == CodeStart(response_text)
        code_end == CodeEnd(response_text)
    IN  IF response = <<>> THEN CodeOutcome(FALSE, "")
        ELSE IF code_start >= 3 /\ code_end > code_start
             THEN CodeOutcome(TRUE, Strip(PySlice(response_text, code_start, code_end)))
             ELSE CodeOutcome(FALSE, "")

\* str(v) inside an f-string: the text of a str, else the value written out.
Format(v) == IF v.kind = "str" THEN v.str ELSE Dumps(v, 0)

\* brand_guide.get(outer, {}).get(inner, default) raises AttributeError when
\* brand_guide or brand_guide[outer] is not a dict.
NestedGetRaises(brand_guide, outer) ==
    \/ ~IsMap(brand_guide)
    \/ ~IsMap(Get(brand_guide, outer, EmptyDict))

NestedGet(brand_guide, outer, inner, default) ==
    Format(Get(Get(brand_guide, outer, EmptyDict), inner, JStr(default)))

\* "".join(word.capitalize() for word in section_type.split("_"))
PascalCase(section_type) ==
    LET words == PySplit(section_type, "_")
    IN  PyJoin("", [i \in 1 .. Len(words) |-> PyCapitalize(words[i])])

\* Variant of _create_default_page: a section type used twice is imported once.
DefaultPageUniqueImports(page_name, sections) ==
    LET pascal(i) == PascalCase(sections[i][1])
        first(i) == \A j \in 1 .. i - 1 : sections[j][1] # sections[i][1]
        imports == [i \in 1 .. Len(sections) |->
                      IF first(i)
                      THEN "import " \o pascal(i) \o " from '@/components/sections/"
                           \o sections[i][1] \o "';"
                      ELSE ""]
        section_jsx == [i \in 1 .. Len(sections) |-> "      <" \o pascal(i) \o " />"]
    IN  "\nimport React from 'react';\n"
        \o PyJoin("\n", imports) \o "\n"
        \o "\n"
        \o "export default function " \o PyReplace(page_name, " ", "") \o "Page() {\n"
        \o "  return (\n"
        \o "    <div className=\"container mx-auto py-8\">\n"
        \o "      <h1 className=\"text-3xl font-bold mb-8\">" \o page_name \o "</h1>\n"
        \o PyJoin("\n", section_jsx) \o "\n"
        \o "    </div>\n"
        \o "  );\n"
        \o "}\n"

\* _create_default_page: sections is a sequence of <<section_type, component_name>>.
_create_default_page(page_name, sections) ==
    LET pascal(i) == PascalCase(sections[i][1])
        imports == [i \in 1 .. Len(sections) |->
                      "import " \o pascal(i) \o " from '@/components/sections/"
                      \o sections[i][1] \o "';"]
        section_jsx == [i \in 1 .. Len(sections) |-> "      <" \o pascal(i) \o " />"]
    IN  "\nimport React from 'react';\n"
        \o PyJoin("\n", imports) \o "\n"
        \o "\n"
        \o "export default function " \o PyReplace(page_name, " ", "") \o "Page() {\n"
        \o "  return (\n"
        \o "    <div className=\"container mx-auto py-8\">\n"
        \o "      <h1 className=\"text-3xl font-bold mb-8\">" \o page_name \o "</h1>\n"
        \o PyJoin("\n", section_jsx) \o "\n"
        \o "    </div>\n"
        \o "  );\n"
        \o "}\n"

\* _create_default_layout, for a brand_guide whose lookups do not raise. The
\* copyright sign of the footer is written (c).
_create_default_layout(brand_guide) ==
    LET primary_color == NestedGet(brand_guide, "colors", "primary", "#000000")
        background_color == NestedGet(brand_guide, "colors", "background", "#ffffff")
    IN
        "\n"
        \o "import React from 'react';\n"
        \o "import '@fontsource/inter/400.css';\n"
        \o "import '@fontsource/inter/700.css';\n"
        \o "import '@fontsource/playfair-display/400.css';\n"
        \o "import '@fontsource/playfair-display/700.css';\n"
        \o "import './globals.css';\n"
        \o "\n"
        \o "export const metadata = {\n"
        \o "  title: 'Generated Website',\n"
        \o "  description: 'A website generated by AI CMS',\n"
        \o "};\n"
        \o "\n"
        \o "export default function RootLayout({\n"
        \o "  children,\n"
        \o "}: {\n"
        \o "  children: React.ReactNode;\n"
        \o "}) {\n"
        \o "  return (\n"
        \o "    <html lang=\"en\">\n"
        \o "      <body>\n"
        \o "        <header className=\"bg-[" \o primary_color \o "] text-white p-4\">\n"
        \o "          <div className=\"container mx-auto flex justify-between items-center\">\n"
        \o "            <div className=\"text-xl font-bold\">Logo</div>\n"
        \o "            <nav>\n"
        \o "              <ul className=\"flex space-x-4\">\n"
        \o "                <li><a href=\"/\" className=\"hover:underline\">Home</a></li>\n"
        \o "                <li><a href=\"/about\" className=\"hover:underline\">About</a></li>\n"
        \o "                <li><a href=\"/contact\" className=\"hover:underline\">Contact</a></li>\n"
        \o "              </ul>\n"
        \o "            </nav>\n"
        \o "          </div>\n"
        \o "        </header>\n"
        \o "        \n"
        \o "        <main className=\"min-h-screen bg-[" \o background_color \o "]\">\n"
        \o "          {children}\n"
        \o "        </main>\n"
        \o "        \n"
        \o "        <footer className=\"bg-gray-800 text-white p-6\">\n"
        \o "          <div className=\"container mx-auto\">\n"
        \o "            <div className=\"text-center\">\n"
        \o "              <p>(c) {new Date().getFullYear()} Generated Website. All rights reserved.</p>\n"
        \o "            </div>\n"
        \o "          </div>\n"
        \o "        </footer>\n"
        \o "      </body>\n"
        \o "    </html>\n"
        \o "  );\n"
        \o "}\n"

(***************************************************************************)
(* Bounds and the inputs drawn                                             *)
(***************************************************************************)

\* The longest text of arbitrary characters a JSON agent is answered with.
MaxJunk == 3

\* The longest arbitrary text before and after a JSON object in a response.
MaxFrame == 1

\* The longest text of arbitrary characters a code generation is answered with.
MaxCodeJunk == 3

RECURSIVE Strs(_, _)
\* The strings of at most n characters of chars.
Strs(chars, n) ==
    IF n = 0 THEN {""}
    ELSE LET shorter == Strs(chars, n - 1)
         IN  shorter \cup { s \o c : s \in shorter, c \in chars }

\* The JSON object texts of the responses; the second is the base of the
\* merge example of the specification.
JsonBodies ==
    { "{}",
      "{\"colors\": {\"primary\": \"#fff\", \"secondary\": \"#aaa\"}, \"ui_style\": \"modern\"}",
      "{\"Home\": [{\"type\": \"hero\", \"description\": \"d\"}]}",
      "{\"colors\": \"primary red\"}",
      "{\"colors\": null, \"ui_style\": \"modern\"}",
      "{\"ui_style\": \"modern\"}" }

\* What stands before the object holds no "{", what stands after it no "}".
PrefixChars == {"}", "x"}

SuffixChars == {"{", "x"}

JunkChars == {"{", "}", "\"", "a"}

JsonTexts ==
    Strs(JunkChars, MaxJunk)
    \cup { prefix \o body \o suffix :
             prefix \in Strs(PrefixChars, MaxFrame),
             body \in JsonBodies,
             suffix \in Strs(SuffixChars, MaxFrame) }

\* response.content: empty, or one block whose text is the answer.
JsonResponses == {<<>>} \cup { <<t>> : t \in JsonTexts }

CodeChars == {"~", "X", "\n", " "}

CodeTags == {"", "typescript", "tsx"}

CodeBodies == {"X", "X\nY\n", " X ", "", "let typescript = 1;\nY\n"}

FencedTexts ==
    { pre \o Fence \o tag \o nl \o body \o Fence \o post :
        pre \in {"", "Here:\n"}, tag \in CodeTags, nl \in {"\n", ""},
        body \in CodeBodies, post \in {"", "\nDone."} }

PlainTexts == {"export default X;", " X\nY \n", "use typescript here\nX", "~~~tsx\nX"}

CodeTexts == Strs(CodeChars, MaxCodeJunk) \cup FencedTexts \cup PlainTexts

CodeResponses == {<<>>} \cup { <<t>> : t \in CodeTexts }

JsonOps == {"generate_sitemap", "generate_style_guide"}

CodeOps == {"_generate_component_code", "_generate_page", "_generate_layout"}

BusinessNames == {"Acme", "Bo"}

\* input_data["colors"]: none, one colour the guides hold, and one more that
\* no guide holds.
Preferences ==
    { EmptyDict,
      JMap("primary" :> JStr("#000")),
      JMap(("primary" :> JStr("#000")) @@ ("tertiary" :> JStr("#123"))) }

PageNames == {"Home", "About Us"}

SectionLists == { <<>>, << <<"hero", "hero">>, <<"contact_form", "contact_form">> >> }

BrandGuides ==
    { _create_default_brand_guide("Acme"),
      JMap("ui_style" :> JStr("modern")),
      JMap("colors" :> JStr("red")) }

\* What the output file holds before the invocation.
InitialFiles == { NoFile, FileOf("{\n  \"old\": {\n    \"k\": \"v\"\n  }\n}") }

(***************************************************************************)
(* The state of one invocation                                             *)
(***************************************************************************)

VARIABLES
    op,                 \* the operation invoked
    pc,                 \* its position
    business_name,      \* inputs of the JSON agents
    color_preferences,
    page_name,          \* inputs of the code generations
    sections,
    brand_guide,
    api,                \* the external call: "pending", "ok", "raised"
    response,           \* response.content
    document,           \* the local sitemap / brand_guide document
    content,            \* the local page_content / layout_content / code
    file,               \* the output file of the operation
    saved,              \* how the write to it ended, "none" before it
    attempted,          \* the text handed to the write
    returned,           \* the value returned
    loaded,             \* the document read back from the file
    credential,         \* ANTHROPIC_API_KEY is set (environment or .env file)
    exit_status,        \* the exit status of the process, NotExited while it runs
    requests,           \* the calls of client.messages.create so far
    sitemap_file,       \* sitemap.json and brand-guide.json as the code agent finds them
    brand_guide_file,
    sitemap,            \* the sitemap generate_website loaded
    pages,              \* the page names sitemap.items() has yet to yield
    todo,               \* the sections of the current page yet to generate
    files,              \* the files under the output directory: path -> content
    dirs,               \* the directories the process created
    faults,             \* the file-system calls that failed so far
    error               \* the exception that ended the process, "none" without one

\* The state of the code agent's process only.
site == << sitemap_file, brand_guide_file, sitemap, pages, todo, files, dirs,
           faults, error >>

vars == << op, pc, business_name, color_preferences, page_name, sections,
           brand_guide, api, response, document, content, file, saved,
           attempted, returned, loaded, credential, exit_status, requests, site >>

\* exit_status while the process runs.
NotExited == -1

NoFiles == <<>>

\* The code agent's state in an invocation of another operation.
NoSite ==
    /\ sitemap_file = NoFile
    /\ brand_guide_file = NoFile
    /\ sitemap = JNull
    /\ pages = <<>>
    /\ todo = <<>>
    /\ files = NoFiles
    /\ dirs = {}
    /\ faults = 0
    /\ error = "none"

NotYet == [done |-> FALSE, val |-> JNull]

NotLoaded == [done |-> FALSE, read_ok |-> FALSE, val |-> JNull]

Done(v) == [done |-> TRUE, val |-> v]

\* The hardcoded default document of a JSON agent.
DefaultDocument ==
    IF op = "generate_sitemap" THEN _create_default_sitemap(business_name)
    ELSE _create_default_brand_guide(business_name)

Init ==
    /\ op \in JsonOps \cup CodeOps
    /\ pc = (IF op \in JsonOps THEN "main" ELSE "prompt")
    /\ credential \in (IF op \in JsonOps THEN BOOLEAN ELSE {TRUE})
    /\ exit_status = NotExited
    /\ requests = 0
    /\ NoSite
    /\ business_name \in (IF op \in JsonOps THEN BusinessNames ELSE {""})
    /\ color_preferences \in (IF op = "generate_style_guide" THEN Preferences ELSE {EmptyDict})
    /\ page_name \in (IF op = "_generate_page" THEN PageNames ELSE {""})
    /\ sections \in (IF op = "_generate_page" THEN SectionLists ELSE {<<>>})
    /\ brand_guide \in (IF op \in CodeOps THEN BrandGuides ELSE {EmptyDict})
    /\ api = "pending"
    /\ response = <<>>
    /\ document = JNull
    /\ content = ""
    /\ file \in InitialFiles
    /\ saved = "none"
    /\ attempted = ""
    /\ returned = NotYet
    /\ loaded = NotLoaded

\* The prompt's f-string of a code generation raises AttributeError when a
\* nested lookup meets a value that is not a dict.
PromptRaises ==
    /\ op \in CodeOps
    /\ \/ NestedGetRaises(brand_guide, "colors")
       \/ NestedGetRaises(brand_guide, "typography")
       \/ (op = "_generate_component_code" /\ NestedGetRaises(brand_guide, "components"))

\* SitemapAgent() / BrandGuideAgent() in __main__: without a credential
\* __init__ raises ValueError before the client is created.  sitemap_agent
\* catches it and calls sys.exit(1); brand_guide_agent lets it end the process,
\* which the interpreter does with status 1.
CreateAgent ==
    /\ pc = "main"
    /\ op \in JsonOps
    /\ IF credential
       THEN /\ pc' = "prompt"
            /\ exit_status' = exit_status
       ELSE /\ pc' = "exited"
            /\ exit_status' = 1
    /\ UNCHANGED << requests, site >>
    /\ UNCHANGED << op, business_name, color_preferences, page_name, sections,
                    brand_guide, api, response, document, content, file, saved,
                    attempted, returned, loaded, credential >>

BuildPrompt ==
    /\ pc = "prompt"
    /\ pc' = IF PromptRaises THEN "raised" ELSE "call"
    /\ UNCHANGED << credential, exit_status, requests, site >>
    /\ UNCHANGED << op, business_name, color_preferences, page_name, sections,
                    brand_guide, api, response, document, content, file, saved,
                    attempted, returned, loaded >>

\* Variant of ApiRaises: a call that raised is made again.
ApiRaisesRetry ==
    /\ pc = "call"
    /\ api' = "raised"
    /\ requests' = requests + 1
    /\ UNCHANGED << credential, exit_status, site >>
    /\ UNCHANGED << op, pc, business_name, color_preferences, page_name, sections,
                    brand_guide, response, document, content, file, saved,
                    attempted, returned, loaded >>

\* client.messages.create raises. generate_sitemap catches it and returns the
\* default sitemap at once; the other operations have no handler around the call.
ApiRaises ==
    /\ pc = "call"
    /\ api' = "raised"
    /\ IF op = "generate_sitemap"
       THEN /\ returned' = Done(_create_default_sitemap(business_name))
            /\ pc' = "done"
       ELSE /\ returned' = returned
            /\ pc' = "raised"
    /\ requests' = requests + 1
    /\ UNCHANGED << credential, exit_status, site >>
    /\ UNCHANGED << op, business_name, color_preferences, page_name, sections,
                    brand_guide, response, document, content, file, saved,
                    attempted, loaded >>

ApiReturns ==
    /\ pc = "call"
    /\ \E r \in (IF op \in JsonOps THEN JsonResponses ELSE CodeResponses) :
          response' = r
    /\ api' = "ok"
    /\ pc' = "extract"
    /\ requests' = requests + 1
    /\ UNCHANGED << credential, exit_status, site >>
    /\ UNCHANGED << op, business_name, color_preferences, page_name, sections,
                    brand_guide, document, content, file, saved, attempted,
                    returned, loaded >>

\* The try block of lines 149-179 (sitemap) and 97-110 (brand guide).
ExtractDocument ==
    /\ pc = "extract"
    /\ op \in JsonOps
    /\ LET r == ExtractJson(response, DefaultDocument)
       IN  /\ document' = r.doc
           /\ pc' = IF r.raised THEN "raised"
                    ELSE IF op = "generate_style_guide" THEN "merge" ELSE "save"
    /\ UNCHANGED << credential, exit_status, requests, site >>
    /\ UNCHANGED << op, business_name, color_preferences, page_name, sections,
                    brand_guide, api, response, content, file, saved, attempted,
                    returned, loaded >>

\* Variant of Merge: the colour preferences are not applied.
MergeSkipped ==
    /\ pc = "merge"
    /\ document' = document
    /\ pc' = IF Overlay(document, color_preferences).raised THEN "raised" ELSE "save"
    /\ UNCHANGED << credential, exit_status, requests, site >>
    /\ UNCHANGED << op, business_name, color_preferences, page_name, sections,
                    brand_guide, api, response, content, file, saved, attempted,
                    returned, loaded >>

\* Lines 112-116 of generate_style_guide.
Merge ==
    /\ pc = "merge"
    /\ LET r == Overlay(document, color_preferences)
       IN  /\ document' = r.doc
           /\ pc' = IF r.raised THEN "raised" ELSE "save"
    /\ UNCHANGED << credential, exit_status, requests, site >>
    /\ UNCHANGED << op, business_name, color_preferences, page_name, sections,
                    brand_guide, api, response, content, file, saved, attempted,
                    returned, loaded >>

\* _save_sitemap, _save_brand_guide: whatever the write raises is caught.
Save ==
    /\ pc = "save"
    /\ op \in JsonOps
    /\ LET text == SaveText(document)
       IN  /\ \E io \in IoOutcomes(text) :
                 /\ file' = WriteFile(file, text, io)
                 /\ saved' = io.kind
           /\ attempted' = text
    /\ pc' = "return"
    /\ UNCHANGED << credential, exit_status, requests, site >>
    /\ UNCHANGED << op, business_name, color_preferences, page_name, sections,
                    brand_guide, api, response, document, content, returned, loaded >>

Return ==
    /\ pc = "return"
    /\ returned' = Done(document)
    /\ pc' = "done"
    /\ UNCHANGED << credential, exit_status, requests, site >>
    /\ UNCHANGED << op, business_name, color_preferences, page_name, sections,
                    brand_guide, api, response, document, content, file, saved,
                    attempted, loaded >>

\* The file read back after the operation: by edit_sitemap / edit_style_guide
\* of the same agent, or by CodeActionAgent._load_json.
ReadBack ==
    /\ pc = "done"
    /\ op \in JsonOps
    /\ ~loaded.done
    /\ \E read_ok \in BOOLEAN, reader \in {"edit", "_load_json"} :
          loaded' = [done |-> TRUE, read_ok |-> read_ok,
                     val |-> IF reader = "edit" THEN edit_document(file, read_ok)
                             ELSE _load_json(file, read_ok)]
    /\ UNCHANGED << credential, exit_status, requests, site >>
    /\ UNCHANGED << op, pc, business_name, color_preferences, page_name, sections,
                    brand_guide, api, response, document, content, file, saved,
                    attempted, returned >>

\* The try block of a code generation and what follows it when no code was
\* found: _generate_component_code returns "", _generate_page and
\* _generate_layout go on with the default page and the default layout.
ExtractContent ==
    /\ pc = "extract"
    /\ op \in CodeOps
    /\ LET r == ExtractCode(response)
       IN  CASE op = "_generate_component_code" ->
                  /\ content' = r.code
                  /\ returned' = Done(JStr(r.code))
                  /\ pc' = "done"
             [] op = "_generate_page" ->
                  /\ content' = IF r.found THEN r.code
                                ELSE _create_default_page(page_name, sections)
                  /\ returned' = returned
                  /\ pc' = "save"
             [] op = "_generate_layout" ->
                  /\ content' = IF r.found THEN r.code
                                ELSE _create_default_layout(brand_guide)
                  /\ returned' = returned
                  /\ pc' = "save"
    /\ UNCHANGED << credential, exit_status, requests, site >>
    /\ UNCHANGED << op, business_name, color_preferences, page_name, sections,
                    brand_guide, api, response, document, file, saved, attempted,
                    loaded >>

\* _write_file(page_file, page_content): True when written, False when the
\* write raised.
WriteContent ==
    /\ pc = "save"
    /\ op \in CodeOps
    /\ \E io \in IoOutcomes(content) :
          /\ file' = WriteFile(file, content, io)
          /\ saved' = io.kind
          /\ returned' = Done(JBool(io.kind = "ok"))
    /\ attempted' = content
    /\ pc' = "done"
    /\ UNCHANGED << credential, exit_status, requests, site >>
    /\ UNCHANGED << op, business_name, color_preferences, page_name, sections,
                    brand_guide, api, response, document, content, loaded >>

Next ==
    \/ CreateAgent
    \/ BuildPrompt
    \/ ApiRaises
    \/ ApiReturns
    \/ ExtractDocument
    \/ Merge
    \/ Save
    \/ Return
    \/ ReadBack
    \/ ExtractContent
    \/ WriteContent

Spec == Init /\ [][Next]_vars

(***************************************************************************)
(* The code agent: paths and files                                         *)
(***************************************************************************)

\* os.path.join(a, b)
PathJoin(a, b) ==
    IF Len(b) > 0 /\ Char(b, 1) = "/" THEN b
    ELSE IF a = "" \/ Char(a, Len(a)) = "/" THEN a \o b
    ELSE a \o "/" \o b

\* os.path.dirname(path)
DirName(path) ==
    LET slash == PyRFind(path, "/")
    IN  IF slash < 0 THEN "" ELSE IF slash = 0 THEN "/" ELSE PySlice(path, 0, slash)

\* CodeActionAgent.__init__
output_dir == "src"

components_dir == PathJoin(output_dir, "components")

sections_dir == PathJoin(components_dir, "sections")

pages_dir == PathJoin(output_dir, "app")

templates_dir == PathJoin(output_dir, "templates")

\* Variant of _page_name_to_filename that keeps the letter case.
PageNameKeepCase(name) ==
    IF PyLower(name) = "home" \/ PyLower(name) = "homepage" THEN ""
    ELSE PyReplace(name, " ", "-")

_page_name_to_filename(name) ==
    IF PyLower(name) = "home" \/ PyLower(name) = "homepage" THEN ""
    ELSE PyReplace(PyLower(name), " ", "-")

\* Variant of SectionPath: every section is looked up as the hero template.
SectionPathAlwaysHero(section_type) == PathJoin(sections_dir, "hero.tsx")

\* section_filename = f"{section_type}.tsx" under sections_dir
SectionPath(section_type) == PathJoin(sections_dir, section_type \o ".tsx")

\* Variant of _section_exists that never finds the file.
SectionNeverExists(fs, section_type) == FALSE

\* os.path.exists(os.path.join(self.sections_dir, section_filename))
_section_exists(fs, section_type) == SectionPath(section_type) \in DOMAIN fs

\* What a file-system call leaves: the files, the directories created,
\* whether it succeeded, whether an exception left the function.
FsResult(fs, ds, ok, raised) == [files |-> fs, dirs |-> ds, ok |-> ok, raised |-> raised]

\* Variant of _write_file without the try: a failed write raises.
WriteFileUncaught(fs, ds, path, text, io) ==
    LET old == IF path \in DOMAIN fs THEN FileOf(fs[path]) ELSE NoFile
        new == WriteFile(old, text, io)
    IN  FsResult(IF new.exists THEN (path :> new.text) @@ fs ELSE fs,
                 ds \cup {DirName(path)}, io.kind = "ok", io.kind # "ok")

\* _write_file: os.makedirs of the directory, open(path, 'w'), write; every
\* exception is caught and False returned.
_write_file(fs, ds, path, text, io) ==
    LET old == IF path \in DOMAIN fs THEN FileOf(fs[path]) ELSE NoFile
        new == WriteFile(old, text, io)
    IN  FsResult(IF new.exists THEN (path :> new.text) @@ fs ELSE fs,
                 ds \cup {DirName(path)}, io.kind = "ok", FALSE)

\* Variant of Truthy: every loaded document counts as non-empty.
AlwaysTruthy(v) == TRUE

\* bool(v) of Python.
Truthy(v) ==
    CASE v.kind = "map" -> DOMAIN v.map # {}
      [] v.kind = "list" -> v.list # <<>>
      [] v.kind = "str" -> v.str # ""
      [] v.kind = "bool" -> v.str = "True"
      [] OTHER -> FALSE

(***************************************************************************)
(* The code agent: one code generation                                     *)
(***************************************************************************)

\* The prompt of a code generation raises AttributeError when a nested lookup
\* of the brand guide meets a value that is not a dict.
GenerationPromptRaises(kind, guide) ==
    \/ NestedGetRaises(guide, "colors")
    \/ NestedGetRaises(guide, "typography")
    \/ (kind = "component" /\ NestedGetRaises(guide, "components"))

\* How client.messages.create ends: it raises, or returns response.content.
ApiReply(raised, reply) == [raised |-> raised, content |-> reply]

Generation(err, issued, reply, found, code) ==
    [error |-> err, issued |-> issued, response |-> reply, found |-> found, code |-> code]

\* Variant of Generate: a component without code becomes a placeholder.
GenerateWithPlaceholder(kind, guide, reply) ==
    IF GenerationPromptRaises(kind, guide)
    THEN Generation("AttributeError", 0, <<>>, FALSE, "")
    ELSE IF reply.raised THEN Generation("ApiError", 1, <<>>, FALSE, "")
    ELSE LET r == ExtractCode(reply.content)
         IN  Generation("none", 1, reply.content, r.found,
                        IF kind = "component" /\ r.code = ""
                        THEN "export default function Placeholder() {}" ELSE r.code)

\* The prompt, the call and the extraction of _generate_component_code
\* ("component"), _generate_page ("page") and _generate_layout ("layout"):
\* the exception that leaves it, the requests issued, the code extracted.
Generate(kind, guide, reply) ==
    IF GenerationPromptRaises(kind, guide)
    THEN Generation("AttributeError", 0, <<>>, FALSE, "")
    ELSE IF reply.raised THEN Generation("ApiError", 1, <<>>, FALSE, "")
    ELSE LET r == ExtractCode(reply.content)
         IN  Generation("none", 1, reply.content, r.found, r.code)

(***************************************************************************)
(* The code agent's process: __main__ and generate_website                 *)
(***************************************************************************)

\* The most file-system calls that fail in one run of the code agent.
MaxFaults == 1

\* A section descriptor of a sitemap.
Descriptor(type, description) ==
    JMap(("type" :> JStr(type)) @@ ("description" :> JStr(description)))

\* The sitemaps the code agent is run on: a section type used three times on
\* two pages; a descriptor without "type" whose description names a hero; two
\* page names and two section types that differ in letter case and in space
\* versus hyphen only, one descriptor without "description".
Sitemaps ==
    { JMap(   ("Home" :> JList(<< Descriptor("hero", "Hero banner"),
                                   Descriptor("hero", "again") >>))
           @@ ("About Us" :> JList(<< Descriptor("hero", "d") >>))),
      JMap("Home" :> JList(<< JMap("description" :> JStr("Big HERO image")) >>)),
      JMap(   ("About Us" :> JList(<< JMap("type" :> JStr("Hero Banner")) >>))
           @@ ("about-us" :> JList(<< Descriptor("hero-banner", "d") >>))) }

\* sitemap.json: missing, not JSON, an empty object, an array, a sitemap.
SitemapFiles ==
    { NoFile, FileOf("oops"), FileOf("{}"), FileOf("[\"Home\"]") }
    \cup { FileOf(SaveText(m)) : m \in Sitemaps }

\* brand-guide.json: missing, a guide without colors, typography and
\* components, and a guide whose colors is a string.
BrandGuideFiles ==
    { NoFile,
      FileOf("{\"ui_style\": \"modern\"}"),
      FileOf("{\"colors\": \"red\"}") }

\* The section files found before the run: none, or a hero section.
InitialSiteFiles == { NoFiles, SectionPath("hero") :> "OLD" }

\* response.content of a code generation: a text without a fence, a fence
\* around blanks, a fence around code.
SiteResponses ==
    { << "no code" >>, << "~~~\n \n~~~" >>, << "~~~typescript\nX\n~~~" >> }

ApiReplies ==
    { ApiReply(TRUE, <<>>) } \cup { ApiReply(FALSE, r) : r \in SiteResponses }

\* The replies to the generation of a page and of the layout.
PageReplies == { r \in ApiReplies : r.content # << "~~~\n \n~~~" >> }

\* How os.makedirs ends: TRUE, or FALSE when it raises OSError.
MkdirOutcomes == IF faults < MaxFaults THEN BOOLEAN ELSE {TRUE}

\* How the open and the write of _write_file end.  Its os.makedirs finds the
\* directory made already, by __init__ or by the caller.
SiteIo(text) ==
    IF faults < MaxFaults
    THEN IoOutcomes(text)
    ELSE {IoOutcome("ok", Len(text))}

Fault(io) == IF io.kind = "ok" THEN 0 ELSE 1

\* The orders sitemap.items() may yield the pages in: the order of the keys
\* in the file, which the parsed mapping does not record.
ItemOrders(m) ==
    IF ~IsMap(m) THEN { <<>> }
    ELSE { q \in [1 .. Cardinality(Keys(m)) -> Keys(m)] :
             \A k \in Keys(m) : \E i \in DOMAIN q : q[i] = k }

\* The variables the code agent leaves alone, and its inputs.
idle == << business_name, color_preferences, api, document, file, attempted, loaded >>

inputs == << op, credential, sitemap_file, brand_guide_file >>

WebsiteInit ==
    /\ op = "code_action_agent"
    /\ pc = "main"
    /\ credential \in BOOLEAN
    /\ sitemap_file \in SitemapFiles
    /\ brand_guide_file \in BrandGuideFiles
    /\ files \in InitialSiteFiles
    /\ business_name = ""
    /\ color_preferences = EmptyDict
    /\ page_name = ""
    /\ sections = <<>>
    /\ brand_guide = JNull
    /\ api = "pending"
    /\ response = <<>>
    /\ document = JNull
    /\ content = ""
    /\ file = NoFile
    /\ saved = "none"
    /\ attempted = ""
    /\ returned = NotYet
    /\ loaded = NotLoaded
    /\ exit_status = NotExited
    /\ requests = 0
    /\ sitemap = JNull
    /\ pages = <<>>
    /\ todo = <<>>
    /\ dirs = {}
    /\ faults = 0
    /\ error = "none"

\* An exception leaves generate_website and __main__: the interpreter prints
\* the traceback and ends the process with status 1.
Abort(kind) ==
    /\ pc' = "raised"
    /\ error' = kind
    /\ exit_status' = 1

Proceed(raised, kind, next) ==
    IF raised THEN Abort(kind)
    ELSE /\ pc' = next
         /\ UNCHANGED << error, exit_status >>

\* Variant of CheckCredential: the credential is not looked at.
CheckCredentialSkipped ==
    /\ pc = "main"
    /\ op = "code_action_agent"
    /\ pc' = "inputs"
    /\ UNCHANGED << page_name, sections, brand_guide, response, content, saved,
                    returned, exit_status, requests, sitemap, pages, todo, files,
                    dirs, faults, error, idle, inputs >>

\* Lines 668-671.
CheckCredential ==
    /\ pc = "main"
    /\ op = "code_action_agent"
    /\ IF credential
       THEN /\ pc' = "inputs"
            /\ exit_status' = exit_status
       ELSE /\ pc' = "exited"
            /\ exit_status' = 1
    /\ UNCHANGED << page_name, sections, brand_guide, response, content, saved,
                    returned, requests, sitemap, pages, todo, files, dirs,
                    faults, error, idle, inputs >>

\* Lines 674-680.
CheckInputs ==
    /\ pc = "inputs"
    /\ IF sitemap_file.exists /\ brand_guide_file.exists
       THEN /\ pc' = "construct"
            /\ exit_status' = exit_status
       ELSE /\ pc' = "exited"
            /\ exit_status' = 1
    /\ UNCHANGED << page_name, sections, brand_guide, response, content, saved,
                    returned, requests, sitemap, pages, todo, files, dirs,
                    faults, error, idle, inputs >>

\* CodeActionAgent(api_key): the three os.makedirs of __init__.
Construct ==
    /\ pc = "construct"
    /\ \E made \in MkdirOutcomes :
          IF made
          THEN /\ dirs' = dirs \cup {output_dir, components_dir, sections_dir,
                                     pages_dir, templates_dir}
               /\ faults' = faults
               /\ Proceed(FALSE, "", "load")
          ELSE /\ dirs' = dirs
               /\ faults' = faults + 1
               /\ Abort("OSError")
    /\ UNCHANGED << page_name, sections, brand_guide, response, content, saved,
                    returned, requests, sitemap, pages, todo, files, idle, inputs >>

\* Lines 52-57 of generate_website.
Load ==
    /\ pc = "load"
    /\ \E sitemap_ok \in BOOLEAN, brand_guide_ok \in BOOLEAN :
          LET s == _load_json(sitemap_file, sitemap_ok)
              b == _load_json(brand_guide_file, brand_guide_ok)
          IN  /\ sitemap' = s
              /\ brand_guide' = b
              /\ IF ~Truthy(s) \/ ~Truthy(b)
                 THEN /\ returned' = Done(JBool(FALSE))
                      /\ pc' = "returned"
                      /\ pages' = pages
                 ELSE /\ returned' = returned
                      /\ pc' = "ui_button"
                      /\ pages' \in ItemOrders(s)
    /\ UNCHANGED << page_name, sections, response, content, saved, exit_status,
                    requests, todo, files, dirs, faults, error, idle, inputs >>

\* self._write_file(path, text) from directories ds on; afterwards the step
\* ends at next, or with the exception kind when raises.
WriteStep(path, text, ds, raises, kind, next) ==
    \E io \in SiteIo(text) :
       LET w == _write_file(files, ds, path, text, io)
       IN  /\ files' = w.files
           /\ dirs' = w.dirs
           /\ saved' = io.kind
           /\ faults' = faults + Fault(io)
           /\ Proceed(w.raised \/ raises,
                      IF w.raised THEN "OSError in _write_file" ELSE kind, next)

\* No file is written.
NoWrite(ds, raises, kind, next) ==
    /\ files' = files
    /\ dirs' = ds
    /\ saved' = saved
    /\ faults' = faults
    /\ Proceed(raises, kind, next)

\* The prompt or the call of generation g raised.
GenerationRaised(g, ds) ==
    /\ Abort(g.error)
    /\ requests' = requests + g.issued
    /\ dirs' = ds
    /\ UNCHANGED << response, content, files, saved, faults >>

\* An os.makedirs outside any try raised.
MkdirRaised ==
    /\ Abort("OSError")
    /\ faults' = faults + 1
    /\ UNCHANGED << requests, response, content, files, dirs, saved >>

ui_dir == PathJoin(components_dir, "ui")

\* One component of _generate_ui_components: the os.makedirs of line 138
\* before the first, then _generate_component_code and, when it returned
\* code, _write_file.
UiStep(component_type, first, next) ==
    /\ \E made \in (IF first THEN MkdirOutcomes ELSE {TRUE}), reply \in ApiReplies :
          LET ds == dirs \cup {ui_dir}
              g == Generate("component", brand_guide, reply)
          IN  IF ~made THEN MkdirRaised
              ELSE IF g.error # "none" THEN GenerationRaised(g, ds)
              ELSE /\ requests' = requests + g.issued
                   /\ response' = g.response
                   /\ content' = g.code
                   /\ IF g.code # ""
                      THEN WriteStep(PathJoin(ui_dir, component_type \o ".tsx"),
                                     g.code, ds, FALSE, "", next)
                      ELSE NoWrite(ds, FALSE, "", next)
    /\ UNCHANGED << page_name, sections, brand_guide, returned, sitemap, pages,
                    todo, idle, inputs >>

\* Lines 140-147.
GenerateButton ==
    /\ pc = "ui_button"
    /\ UiStep("button", TRUE, "ui_card")

\* Lines 149-156.
GenerateCard ==
    /\ pc = "ui_card"
    /\ UiStep("card", FALSE, "ui_input")

\* Lines 158-167.
GenerateInput ==
    /\ pc = "ui_input"
    /\ UiStep("input", FALSE, "pages")

\* page_dir of the page named name.
PageDir(name) == PathJoin(pages_dir, _page_name_to_filename(name))

\* os.makedirs(d): d without a trailing separator is the directory made.
MadeDir(d) == IF Len(d) > 1 /\ Char(d, Len(d)) = "/" THEN PySlice(d, 0, Len(d) - 1) ELSE d

\* Lines 64-72: the next item of sitemap.items() (AttributeError when the
\* sitemap is no dict), the page's directory, an empty page_sections.
StartPage ==
    /\ pc = "pages"
    /\ ~IsMap(sitemap) \/ pages # <<>>
    /\ IF ~IsMap(sitemap)
       THEN /\ Abort("AttributeError")
            /\ UNCHANGED << page_name, sections, pages, todo, dirs, faults >>
       ELSE \E made \in MkdirOutcomes :
               IF made
               THEN /\ page_name' = Head(pages)
                    /\ pages' = Tail(pages)
                    /\ todo' = sitemap.map[Head(pages)].list
                    /\ sections' = <<>>
                    /\ dirs' = dirs \cup {MadeDir(PageDir(Head(pages)))}
                    /\ faults' = faults
                    /\ Proceed(FALSE, "", "sections")
               ELSE /\ Abort("OSError")
                    /\ faults' = faults + 1
                    /\ UNCHANGED << page_name, sections, pages, todo, dirs >>
    /\ UNCHANGED << brand_guide, response, content, saved, returned, requests,
                    sitemap, files, idle, inputs >>

\* Lines 73-76 for one section: _generate_section, then the append, whose
\* section["type"] raises KeyError when the descriptor has no "type".
GenerateSection ==
    /\ pc = "sections"
    /\ todo # <<>>
    /\ \E reply \in ApiReplies :
          LET section == Head(todo)
              section_type == Get(section, "type", JStr("content")).str
              exists == _section_exists(files, section_type)
              g == IF exists THEN Generation("none", 0, response, FALSE, content)
                   ELSE Generate("component", brand_guide, reply)
              section_component ==
                  IF exists \/ g.code # "" THEN section_type ELSE ""
              key_error == section_component # "" /\ ~HasKey(section, "type")
          IN  IF g.error # "none"
              THEN /\ GenerationRaised(g, dirs)
                   /\ UNCHANGED << sections, todo >>
              ELSE /\ requests' = requests + g.issued
                   /\ response' = g.response
                   /\ content' = g.code
                   /\ IF ~exists /\ g.code # ""
                      THEN WriteStep(SectionPath(section_type), g.code, dirs,
                                     key_error, "KeyError", "sections")
                      ELSE NoWrite(dirs, key_error, "KeyError", "sections")
                   /\ sections' = IF section_component # "" /\ ~key_error
                                  THEN Append(sections,
                                              << section.map["type"].str, section_component >>)
                                  ELSE sections
                   /\ todo' = IF key_error THEN todo ELSE Tail(todo)
    /\ UNCHANGED << page_name, brand_guide, returned, sitemap, pages, idle, inputs >>

\* Line 79, after the sections of the page: _generate_page writes the code
\* of the response or the default page to page.tsx of the page's directory.
GeneratePage ==
    /\ pc = "sections"
    /\ todo = <<>>
    /\ \E reply \in PageReplies :
          LET g == Generate("page", brand_guide, reply)
              page_content == IF g.found THEN g.code
                              ELSE _create_default_page(page_name, sections)
          IN  IF g.error # "none" THEN GenerationRaised(g, dirs)
              ELSE /\ requests' = requests + g.issued
                   /\ response' = g.response
                   /\ content' = page_content
                   /\ WriteStep(PathJoin(PageDir(page_name), "page.tsx"),
                                page_content, dirs, FALSE, "", "pages")
    /\ UNCHANGED << page_name, sections, brand_guide, returned, sitemap, pages,
                    todo, idle, inputs >>

\* Line 83, after the last page: _generate_layout.
GenerateLayout ==
    /\ pc = "pages"
    /\ IsMap(sitemap)
    /\ pages = <<>>
    /\ \E reply \in PageReplies :
          LET g == Generate("layout", brand_guide, reply)
              layout_content == IF g.found THEN g.code
                                ELSE _create_default_layout(brand_guide)
          IN  IF g.error # "none" THEN GenerationRaised(g, dirs)
              ELSE /\ requests' = requests + g.issued
                   /\ response' = g.response
                   /\ content' = layout_content
                   /\ WriteStep(PathJoin(pages_dir, "layout.tsx"),
                                layout_content, dirs, FALSE, "", "cms")
    /\ UNCHANGED << page_name, sections, brand_guide, returned, sitemap, pages,
                    todo, idle, inputs >>

\* The two fixed templates of _generate_cms_components, each by its first line.
api_route_content == "\nimport { NextRequest, NextResponse } from 'next/server';\n"

cms_page_content == "\n'use client';\n"

\* One half of _generate_cms_components: os.makedirs(dir), outside any try,
\* then _write_file of the template.
CmsStep(here, dir, name, text, next) ==
    /\ pc = here
    /\ \E made \in MkdirOutcomes :
          IF ~made THEN MkdirRaised
          ELSE /\ WriteStep(PathJoin(dir, name), text, dirs \cup {dir}, FALSE, "", next)
               /\ UNCHANGED << requests, response, content >>
    /\ UNCHANGED << page_name, sections, brand_guide, sitemap, pages, todo,
                    idle, inputs >>

\* Lines 349-394: the API route.
GenerateCmsRoute ==
    /\ CmsStep("cms", PathJoin(PathJoin(pages_dir, "api"), "cms"), "route.ts",
               api_route_content, "cms_page")
    /\ returned' = returned

\* Lines 396-481 and line 90: the CMS page; generate_website returns True.
GenerateCmsPage ==
    /\ CmsStep("cms_page", PathJoin(pages_dir, "cms"), "page.tsx",
               cms_page_content, "returned")
    /\ returned' = IF pc' = "returned" THEN Done(JBool(TRUE)) ELSE returned

\* Lines 684-687: the outcome is printed and the process ends, with status 0
\* whatever generate_website returned.
Exit ==
    /\ pc = "returned"
    /\ pc' = "exited"
    /\ exit_status' = 0
    /\ UNCHANGED << page_name, sections, brand_guide, response, content, saved,
                    returned, requests, sitemap, pages, todo, files, dirs,
                    faults, error, idle, inputs >>

WebsiteNext ==
    \/ CheckCredential
    \/ CheckInputs
    \/ Construct
    \/ Load
    \/ GenerateButton
    \/ GenerateCard
    \/ GenerateInput
    \/ StartPage
    \/ GenerateSection
    \/ GeneratePage
    \/ GenerateLayout
    \/ GenerateCmsRoute
    \/ GenerateCmsPage
    \/ Exit

\* One run of the code agent's process.
Website == WebsiteInit /\ [][WebsiteNext]_vars

\* One invocation of any of the three agents.
Agents == (Init \/ WebsiteInit) /\ [][Next \/ WebsiteNext]_vars

(***************************************************************************)
(* Properties                                                              *)
(***************************************************************************)

\* The extraction step of a JSON agent has just ended.
AfterExtract ==
    /\ op \in JsonOps
    /\ pc = (IF op = "generate_style_guide" THEN "merge" ELSE "save")

\* The external call returned a text.
Answered == api = "ok" /\ response # <<>>

\* j is the text of a JSON object.
JsonObjectText(j) == Loads(j).ok /\ IsMap(Loads(j).val)

\* The base, the update and the result of the merge example.
ExampleBaseText ==
    "{\"colors\": {\"primary\": \"#fff\", \"secondary\": \"#aaa\"}, \"ui_style\": \"modern\"}"

ExampleBase ==
    JMap(   ("colors" :> JMap(("primary" :> JStr("#fff")) @@ ("secondary" :> JStr("#aaa"))))
         @@ ("ui_style" :> JStr("modern")))

ExampleUpdate == JMap("primary" :> JStr("#000"))

ExampleMerged ==
    JMap(   ("colors" :> JMap(("primary" :> JStr("#000")) @@ ("secondary" :> JStr("#aaa"))))
         @@ ("ui_style" :> JStr("modern")))

\* C1: whenever the response text splits into prefix + J + suffix, J the text
\* of a JSON object, no "{" in prefix and no "}" in suffix, the document the
\* extraction step leaves is the parse of J alone.
C1_FramedJsonIsParsedAlone ==
    (AfterExtract /\ Answered) =>
        LET t == response[1]
        IN  \A i \in 0 .. Len(t) :
                ~Contains(PySlice(t, 0, i), "{") =>
                    \A j \in i + 1 .. Len(t) :
                        (/\ ~Contains(PySlice(t, j, Len(t)), "}")
                         /\ JsonObjectText(PySlice(t, i, j)))
                        => document = Loads(PySlice(t, i, j)).val

\* A framed object with text on both sides was extracted.
C1_Witness ==
    /\ AfterExtract
    /\ response = << "}" \o ExampleBaseText \o "{" >>
    /\ document = ExampleBase

NoBraces(t) == ~Contains(t, "{") /\ ~Contains(t, "}")

\* C2: a response text without any brace leaves exactly the default document
\* of the agent: the default sitemap for the business name, the default brand
\* guide with its five colours.
C2_NoBracesGivesDefault ==
    (AfterExtract /\ Answered /\ NoBraces(response[1])) =>
        /\ op = "generate_sitemap" =>
              /\ document = _create_default_sitemap(business_name)
              /\ Keys(document) = {"Home", "About", "Contact"}
              /\ document.map["Home"].list[1] =
                     Section("hero", "Welcome to " \o business_name)
        /\ op = "generate_style_guide" =>
              /\ document = _create_default_brand_guide(business_name)
              /\ Keys(document) = {"colors", "typography", "ui_style", "components"}
              /\ Keys(document.map["colors"]) =
                     {"primary", "secondary", "accent", "background", "text"}
              /\ document.map["colors"].map["primary"] = JStr("#3B82F6")

C2_Witness ==
    /\ AfterExtract
    /\ op = "generate_style_guide"
    /\ response = << "a\"a" >>
    /\ document = _create_default_brand_guide("Acme")

\* The texts the extraction falls back on: empty or without braces, the last
\* "}" before the first "{", or a slice that is no JSON.
ExtractionFails(t) ==
    LET first == PyFind(t, "{", 0)
        last == PyRFind(t, "}")
    IN  \/ first < 0
        \/ last < first
        \/ ~Loads(PySlice(t, first, last + 1)).ok

\* C3: for every response text the extraction falls back on, no exception
\* leaves the step: it ends with the default document, and the agent goes on
\* to the write of a document and returns it.
C3_FallbackNeverRaises ==
    (op \in JsonOps /\ Answered /\ ExtractionFails(response[1])) =>
        /\ pc # "raised"
        /\ AfterExtract => document = DefaultDocument
        /\ pc \in {"extract", "merge", "save", "return"} => ENABLED Next
        /\ pc = "done" => /\ saved # "none"
                          /\ returned = Done(document)
                          /\ IsMap(document)
                          /\ ~loaded.done => attempted = SaveText(document)

C3_Witness ==
    /\ op = "generate_sitemap"
    /\ pc = "done"
    /\ response = << "}{" >>
    /\ returned = Done(_create_default_sitemap("Bo"))
    /\ saved = "ok"

\* C4: when the external call raises, the invocation is not ended by the
\* exception: it goes on to its normal end and returns a value.
C4_ApiFailureRecovered ==
    api = "raised" => (pc = "done" /\ returned.done)

\* C5: whenever generate_sitemap or generate_style_guide has returned a
\* document, a write of that document to the output file was attempted before.
C5_ReturnFollowsPersist ==
    (op \in JsonOps /\ returned.done) =>
        (saved # "none" /\ attempted = SaveText(returned.val))

\* The extraction step of a code generation has ended.
AfterCodeExtract == op \in CodeOps /\ pc \in {"save", "done"}

NoFence(t) == ~Contains(t, Fence)

\* C6 as stated: without a fence the code body is the whole text, stripped.
C6_NoFenceWholeText ==
    (AfterCodeExtract /\ Answered /\ NoFence(response[1])) =>
        content = Strip(response[1])

\* C6: without a fence no code is extracted: _generate_component_code returns
\* the empty string, _generate_page goes on with the default page and
\* _generate_layout with the default layout.
C6_NoFenceFallsBack ==
    (AfterCodeExtract /\ Answered /\ NoFence(response[1])) =>
        /\ op = "_generate_component_code" =>
              (content = "" /\ returned = Done(JStr("")))
        /\ op = "_generate_page" =>
              content = _create_default_page(page_name, sections)
        /\ op = "_generate_layout" =>
              content = _create_default_layout(brand_guide)

C6_Witness ==
    /\ op = "_generate_page"
    /\ pc = "save"
    /\ response = << "export default X;" >>
    /\ sections # <<>>
    /\ content = _create_default_page(page_name, sections)

Letters == { Char(LowerLetters, i) : i \in 1 .. Len(LowerLetters) }
           \cup { Char(UpperLetters, i) : i \in 1 .. Len(UpperLetters) }

\* A language name: letters only (none is the fence without a tag).
IsLanguageName(tag) == \A i \in 1 .. Len(tag) : Char(tag, i) \in Letters

\* C7: a response text that holds one fenced block (an opening fence, a
\* language name or none up to the end of that line, a body, the closing
\* fence) yields exactly the body, stripped.
C7_FencedBodyExtracted ==
    (AfterCodeExtract /\ Answered) =>
        LET t == response[1]
            open == PyFind(t, Fence, 0)
            close == PyRFind(t, Fence)
            eol == PyFind(t, "\n", open + 3)
        IN  (/\ open >= 0
             /\ PyFind(t, Fence, open + 1) = close
             /\ eol >= 0
             /\ eol < close
             /\ IsLanguageName(PySlice(t, open + 3, eol)))
            => content = Strip(PySlice(t, eol + 1, close))

C9_EveryUpdateKeyPresent ==
    (/\ op = "generate_style_guide"
     /\ pc \in {"save", "return", "done"}
     /\ HasKey(document, "colors")
     /\ IsMap(document.map["colors"]))
    => \A k \in Keys(color_preferences) :
          /\ k \in Keys(document.map["colors"])
          /\ document.map["colors"].map[k] = color_preferences.map[k]

\* C9: the overlay applies the keys of the update that colors already holds,
\* each overwritten by the update's value; a key colors did not hold is not
\* added, and a guide without colors is left as it is.
C9_OnlyHeldKeysOverwritten ==
    [][ pc = "merge" =>
          /\ ~HasKey(document, "colors") => document' = document
          /\ (HasKey(document, "colors") /\ IsMap(document.map["colors"])) =>
                LET colors == document.map["colors"]
                    merged == document'.map["colors"]
                IN  /\ Keys(merged) = Keys(colors)
                    /\ \A k \in Keys(color_preferences) :
                          /\ k \in Keys(colors) => merged.map[k] = color_preferences.map[k]
                          /\ k \notin Keys(colors) => k \notin Keys(merged)
      ]_vars

C9_Witness ==
    /\ op = "generate_style_guide"
    /\ pc = "save"
    /\ "tertiary" \in Keys(color_preferences)
    /\ HasKey(document, "colors")
    /\ IsMap(document.map["colors"])
    /\ document.map["colors"].map["primary"] = JStr("#000")
    /\ "tertiary" \notin Keys(document.map["colors"])

\* C10: once the document was written, the file holds that document and
\* nothing of what it held before (either reader finds the document in it),
\* and the document read back from the file after the operation equals the one
\* persisted and returned.
C10_PersistRoundTrip ==
    (op \in JsonOps /\ saved = "ok") =>
        /\ file.exists
        /\ pc = "return" =>
              /\ _load_json(file, TRUE) = document
              /\ edit_document(file, TRUE) = document
        /\ (loaded.done /\ loaded.read_ok) =>
              (loaded.val = returned.val /\ loaded.val = document)

C10_Witness ==
    /\ op = "generate_sitemap"
    /\ saved = "ok"
    /\ loaded.done
    /\ loaded.read_ok
    /\ loaded.val = _create_default_sitemap("Acme")
    /\ returned = Done(loaded.val)

\* A write of the code agent has failed in this step: a file-system call
\* failed and it was not an os.makedirs outside _write_file, which raises.
WriteFailsHere ==
    /\ op = "code_action_agent"
    /\ faults' > faults
    /\ saved' \notin {"none", "ok"}
    /\ error' # "OSError"

\* C11: a failed write is caught.  _save_sitemap / _save_brand_guide: the
\* operation goes on to return the document it held before the write.
\* _write_file: it returns False to _generate_page / _generate_layout, and in
\* generate_website no exception of a write ends the run, the step of the
\* failed write goes on to the next one (but for the KeyError of a descriptor
\* without "type"), and a run that loaded both documents and returned has
\* returned True.
C11_WriteFailureIsCaught ==
    /\ [](error # "OSError in _write_file")
    /\ []((op \in JsonOps /\ saved \notin {"none", "ok"}) =>
              /\ pc \in {"return", "done"}
              /\ pc = "done" => returned = Done(document))
    /\ []((op \in CodeOps /\ saved \notin {"none", "ok"}) =>
              (pc = "done" /\ returned = Done(JBool(FALSE))))
    /\ []((op = "code_action_agent" /\ returned.done /\ Truthy(sitemap) /\ Truthy(brand_guide))
              => returned = Done(JBool(TRUE)))
    /\ [][(pc = "save" /\ op \in JsonOps) => (document' = document /\ pc' = "return")]_vars
    /\ [][WriteFailsHere => (pc' # "raised" \/ error' = "KeyError")]_vars

\* The write of a section file failed and the run went on to return True.
C11_Witness ==
    /\ op = "code_action_agent"
    /\ pc = "exited"
    /\ exit_status = 0
    /\ returned = Done(JBool(TRUE))
    /\ faults = 1
    /\ requests > 0
    /\ SectionPath("hero") \notin DOMAIN files
    /\ PathJoin(pages_dir, "layout.tsx") \in DOMAIN files


\* generate_website is at a section of the current page.
AtSection ==
    /\ op = "code_action_agent"
    /\ pc = "sections"
    /\ todo # <<>>

\* The type and the description _generate_section reads from the descriptor.
TypeOf(section) == Get(section, "type", JStr("content")).str

DescriptionOf(section) == Get(section, "description", JStr("")).str

\* In this step the section's code was requested and the response yields
\* none: no fence, or a fence around nothing but blanks.
SectionYieldsEmpty ==
    /\ AtSection
    /\ requests' = requests + 1
    /\ error' = "none"
    /\ ExtractCode(response').code = ""

\* C12 as stated: a section whose generation yields empty content gets a
\* placeholder file that contains its description, and joins its page.
C12_EmptySectionGetsPlaceholder ==
    [][SectionYieldsEmpty =>
          LET path == SectionPath(TypeOf(Head(todo)))
          IN  /\ path \in DOMAIN files'
              /\ Contains(files'[path], DescriptionOf(Head(todo)))
              /\ Len(sections') = Len(sections) + 1]_vars

\* C12, amended: a section whose generation yields empty content is dropped:
\* no file is written for it and it is not added to the sections of its page;
\* generate_website goes on with the next section.
C12_EmptySectionIsDropped ==
    [][SectionYieldsEmpty =>
          /\ files' = files
          /\ sections' = sections
          /\ todo' = Tail(todo)
          /\ pc' = "sections"]_vars

\* Both hero sections of the page Home yielded no code: the page is about to
\* be generated without sections and no hero file exists.
C12_Witness ==
    /\ op = "code_action_agent"
    /\ pc = "sections"
    /\ page_name = "Home"
    /\ todo = <<>>
    /\ sections = <<>>
    /\ response = << "~~~\n \n~~~" >>
    /\ requests = 5
    /\ SectionPath("hero") \notin DOMAIN files


\* The files of the sections directory.
IsSectionFile(path) == DirName(path) = sections_dir

\* C13: at a section whose file exists, _generate_section issues no request
\* and changes no file; and no step of a run removes or rewrites a section
\* file that exists, so every later section of a type once written is reused.
C13_ExistingSectionIsReused ==
    /\ [][(AtSection /\ SectionPath(TypeOf(Head(todo))) \in DOMAIN files) =>
             /\ requests' = requests
             /\ files' = files
             /\ error' = "none" =>
                   /\ todo' = Tail(todo)
                   /\ sections' = Append(sections, << TypeOf(Head(todo)), TypeOf(Head(todo)) >>)]_vars
    /\ [][op = "code_action_agent" =>
             \A path \in DOMAIN files :
                IsSectionFile(path) => (path \in DOMAIN files' /\ files'[path] = files[path])]_vars

\* The hero section was generated once, for the page Home; its second use on
\* Home and its use on About Us, the last page, issued no request: three
\* components, one section and one page make five.
C13_Witness ==
    /\ op = "code_action_agent"
    /\ pc = "sections"
    /\ page_name = "About Us"
    /\ pages = <<>>
    /\ todo = <<>>
    /\ sections = << << "hero", "hero" >> >>
    /\ SectionPath("hero") \in DOMAIN files
    /\ files[SectionPath("hero")] = "X"
    /\ requests = 5


\* The description of the section names a hero, in any letter case.
NamesHero(section) == Contains(PyLower(DescriptionOf(section)), "hero")

HeroFile == PathJoin(sections_dir, "hero.tsx")

\* The file of the section's own type.
OwnFile(section) == PathJoin(sections_dir, TypeOf(section) \o ".tsx")

\* C14 as stated: at a section whose description names a hero, with hero.tsx
\* in place, no request is issued, whatever the section's type.
C14_HeroDescriptionUsesTemplate ==
    [][(AtSection /\ NamesHero(Head(todo)) /\ HeroFile \in DOMAIN files) =>
          requests' = requests]_vars

\* C14, amended: the lookup goes by the type, not by the description.  At a
\* section whose description names a hero, with hero.tsx in place, a request
\* is issued exactly when no file of the section's own type exists; hero.tsx
\* is left as it is, and what joins the page is the type's name, never the
\* content of a file.
C14_LookupIsByType ==
    [][(AtSection /\ NamesHero(Head(todo)) /\ HeroFile \in DOMAIN files) =>
          /\ (requests' = requests) <=> (OwnFile(Head(todo)) \in DOMAIN files)
          /\ HeroFile \in DOMAIN files' /\ files'[HeroFile] = files[HeroFile]
          /\ sections' # sections =>
                sections'[Len(sections')] = << TypeOf(Head(todo)), TypeOf(Head(todo)) >>]_vars

\* The section of type hero described as "Hero banner" was taken from the
\* hero.tsx found before the run, without a request: the three components
\* only were requested.
C14_Witness ==
    /\ op = "code_action_agent"
    /\ pc = "sections"
    /\ page_name = "Home"
    /\ todo = << Descriptor("hero", "again") >>
    /\ sections = << << "hero", "hero" >> >>
    /\ HeroFile \in DOMAIN files
    /\ files[HeroFile] = "OLD"
    /\ requests = 3


\* A name lowercased, every space replaced by a hyphen.
Normalized(name) == PyReplace(PyLower(name), " ", "-")

\* The directory of a page by the normalized form of its name; the home page
\* is the pages directory itself.
NormalizedPageDir(name) ==
    PathJoin(pages_dir, IF Normalized(name) \in {"home", "homepage"} THEN ""
                        ELSE Normalized(name))

\* generate_website has written a section file in this step.
SectionWritten == AtSection /\ files' # files

\* C15 as stated, for sections: the file written for a section is named by the
\* normalized form of its type.
C15_SectionFileIsNormalized ==
    [][SectionWritten =>
          PathJoin(sections_dir, Normalized(TypeOf(Head(todo))) \o ".tsx")
              \in DOMAIN files']_vars

\* C15, amended: the directory made for a page, and the page.tsx written in
\* it, go by the normalized form of the page's name, so that two page names of
\* one normalized form share their file; the file of a section, looked up and
\* written, is named by its type as given.
C15_PagesNormalizedSectionsAsGiven ==
    /\ [][(op = "code_action_agent" /\ pc = "pages" /\ pc' = "sections") =>
             MadeDir(NormalizedPageDir(Head(pages))) \in dirs']_vars
    /\ [][(op = "code_action_agent" /\ pc = "sections" /\ todo = <<>>
           /\ pc' = "pages" /\ saved' = "ok") =>
             LET page_file == PathJoin(NormalizedPageDir(page_name), "page.tsx")
             IN  page_file \in DOMAIN files' /\ files'[page_file] = content']_vars
    /\ []((op = "code_action_agent" /\ pc = "ui_button" /\ IsMap(sitemap)) =>
             \A a \in Keys(sitemap), b \in Keys(sitemap) :
                Normalized(a) = Normalized(b) => PageDir(a) = PageDir(b))
    /\ [][SectionWritten => DOMAIN files' = DOMAIN files \cup {OwnFile(Head(todo))}]_vars
    /\ [][(AtSection /\ error' = "none") =>
             ((requests' = requests) <=> (OwnFile(Head(todo)) \in DOMAIN files))]_vars

\* The pages "About Us" and "about-us" were written to one page file, their
\* sections "Hero Banner" and "hero-banner" to two files.
C15_Witness ==
    /\ op = "code_action_agent"
    /\ pc = "exited"
    /\ returned = Done(JBool(TRUE))
    /\ {"About Us", "about-us"} \subseteq Keys(sitemap)
    /\ PathJoin(sections_dir, "Hero Banner.tsx") \in DOMAIN files
    /\ PathJoin(sections_dir, "hero-banner.tsx") \in DOMAIN files
    /\ PathJoin(pages_dir, "about-us/page.tsx") \in DOMAIN files
    /\ PathJoin(pages_dir, "About Us/page.tsx") \notin DOMAIN files
    /\ requests = 8


\* C16: without the credential the process of each agent does nothing but
\* stop: it issues no request, writes no file (the output file of the JSON
\* agents and the files of the code agent are as found), makes no directory,
\* never gets past its first step, and its exit status is 1.
C16_NoCredentialNoWork ==
    ~credential =>
        /\ requests = 0
        /\ saved = "none"
        /\ attempted = ""
        /\ file \in InitialFiles \cup {NoFile}
        /\ files \in InitialSiteFiles
        /\ dirs = {}
        /\ pc \in {"main", "exited"}
        /\ pc = "main" => exit_status = NotExited
        /\ pc = "exited" => exit_status = 1

\* The code agent has stopped for want of the credential, with both input
\* files and a section file in place.
C16_Witness ==
    /\ ~credential
    /\ op = "code_action_agent"
    /\ pc = "exited"
    /\ exit_status = 1
    /\ sitemap_file.exists
    /\ brand_guide_file.exists
    /\ files # NoFiles


\* A required input file cannot be read: it is missing or is no JSON.
InputCannotBeRead ==
    \/ ~sitemap_file.exists
    \/ ~brand_guide_file.exists
    \/ ~Loads(sitemap_file.text).ok
    \/ ~Loads(brand_guide_file.text).ok

\* C17: the process of the code agent, run with the credential and an input
\* file that cannot be read, ends with a status other than 0.
C17_UnreadableInputExitsNonZero ==
    (op = "code_action_agent" /\ credential /\ pc = "exited" /\ InputCannotBeRead)
        => exit_status # 0

\* C18: an invocation issues no request before its call and exactly one by
\* it, whether the call raised or returned: the count stays at one through
\* the extraction, its fallback and the rest of the invocation.
C18_OneRequestNoRetry ==
    op \in JsonOps \cup CodeOps =>
        /\ requests = (IF api = "pending" THEN 0 ELSE 1)
        /\ pc \in {"extract", "merge", "save", "return", "done"} => requests = 1
        /\ returned.done => requests = 1

\* generate_sitemap has returned after a call that raised, one request made.
C18_Witness ==
    /\ op = "generate_sitemap"
    /\ api = "raised"
    /\ pc = "done"
    /\ returned.done
    /\ requests = 1

\* C19: no run of the code agent is ended by the KeyError of a missing key.
C19_MissingKeysTolerated ==
    op = "code_action_agent" => error # "KeyError"


\* C20: the document generate_sitemap / generate_style_guide holds from the
\* extraction on, the one it returns and the one whose text it hands to the
\* write are mappings: the parsed slice begins with "{", every fallback is a
\* hardcoded dict.
C20_TopLevelIsMapping ==
    op \in JsonOps =>
        /\ (api = "ok" /\ pc \in {"merge", "save", "return", "done"}) => IsMap(document)
        /\ returned.done => IsMap(returned.val)
        /\ saved # "none" => (Len(attempted) > 0 /\ Char(attempted, 1) = "{")
        /\ pc = "return" => attempted = SaveText(document)

\* generate_sitemap wrote and returned the document parsed from a response
\* with text before the object.
C20_Witness ==
    /\ op = "generate_sitemap"
    /\ pc = "done"
    /\ saved = "ok"
    /\ api = "ok"
    /\ response = << "x" \o ExampleBaseText >>
    /\ attempted = SaveText(ExampleBase)
    /\ returned = Done(ExampleBase)


StartsWith(s, prefix) == PySlice(s, 0, Len(prefix)) = prefix

EndsWith(s, suffix) == Len(s) >= Len(suffix) /\ PySlice(s, Len(s) - Len(suffix), Len(s)) = suffix

\* The lines of a page that import a section, and those that render one.
SectionImports(text) ==
    LET IsImport(line) == StartsWith(line, "import ") /\ Contains(line, "@/components/sections/")
    IN  SelectSeq(PySplit(text, "\n"), IsImport)

SectionElements(text) ==
    LET IsElement(line) == StartsWith(line, "      <") /\ EndsWith(line, " />")
    IN  SelectSeq(PySplit(text, "\n"), IsElement)

RECURSIVE IsSubsequence(_, _)
\* The elements of a occur in b, in the order of a.
IsSubsequence(a, b) ==
    IF a = <<>> THEN TRUE
    ELSE IF b = <<>> THEN FALSE
    ELSE IF Head(a) = Head(b) THEN IsSubsequence(Tail(a), Tail(b))
    ELSE IsSubsequence(a, Tail(b))

\* In this step _generate_page found no code in the response and assembled the
\* page from the template.
DefaultPageAssembled ==
    /\ op = "code_action_agent"
    /\ pc = "sections"
    /\ todo = <<>>
    /\ pc' = "pages"
    /\ ~ExtractCode(response').found

\* C21: a page assembled from the template holds one import line and one
\* element line for each section kept for the page (a type kept twice is
\* imported and rendered twice), the i-th of either for the i-th kept section;
\* the kept sections are sections of the page in the sitemap, in its order.
C21_DefaultPageListsKeptSections ==
    [][DefaultPageAssembled =>
          LET imps == SectionImports(content')
              elts == SectionElements(content')
              kept == [i \in 1 .. Len(sections) |-> sections[i][1]]
              listed == sitemap.map[page_name].list
          IN  /\ Len(imps) = Len(sections)
              /\ Len(elts) = Len(sections)
              /\ \A i \in 1 .. Len(sections) :
                    /\ imps[i] = "import " \o PascalCase(kept[i])
                                 \o " from '@/components/sections/" \o kept[i] \o "';"
                    /\ elts[i] = "      <" \o PascalCase(kept[i]) \o " />"
              /\ IsSubsequence(kept, [i \in 1 .. Len(listed) |-> TypeOf(listed[i])])
              /\ sections' = sections]_vars

\* The page Home was assembled from the template with its two hero sections.
C21_Witness ==
    /\ op = "code_action_agent"
    /\ pc = "pages"
    /\ page_name = "Home"
    /\ sections = << << "hero", "hero" >>, << "hero", "hero" >> >>
    /\ response = << "no code" >>
    /\ saved = "ok"
    /\ Len(SectionImports(content)) = 2
    /\ PathJoin(pages_dir, "page.tsx") \in DOMAIN files
    /\ files[PathJoin(pages_dir, "page.tsx")] = content


\* The guide generate_style_guide holds before the overlay: the parsed
\* response, or the default guide.
GuideBeforeOverlay == ExtractJson(response, _create_default_brand_guide(business_name)).doc

StyleGuideReturned ==
    /\ op = "generate_style_guide"
    /\ pc = "done"
    /\ returned.done

\* C22: the guide generate_style_guide returns differs from the guide before
\* the overlay (parsed or default) only inside a colors mapping: there every
\* preference key the guide held has the preferred value, the other values
\* are as before and no key is added; the text handed to the write is that of
\* the returned guide, and a complete write leaves exactly it in the file.
C22_ReturnedGuideCarriesPreferences ==
    StyleGuideReturned =>
        LET before == GuideBeforeOverlay
            after == returned.val
        IN  /\ IsMap(after)
            /\ Keys(after) = Keys(before)
            /\ \A k \in Keys(before) \ {"colors"} : after.map[k] = before.map[k]
            /\ (HasKey(before, "colors") /\ ~IsMap(before.map["colors"])) => after = before
            /\ (HasKey(before, "colors") /\ IsMap(before.map["colors"])) =>
                  LET colors == before.map["colors"]
                      merged == after.map["colors"]
                  IN  /\ IsMap(merged)
                      /\ Keys(merged) = Keys(colors)
                      /\ \A k \in Keys(colors) :
                            merged.map[k] = IF k \in Keys(color_preferences)
                                            THEN color_preferences.map[k]
                                            ELSE colors.map[k]
            /\ attempted = SaveText(after)
            /\ saved = "ok" => file = FileOf(SaveText(after))

\* A response without a document: the default guide was overlaid with the
\* preferred primary colour (tertiary, which it lacks, was not added), then
\* written and returned.
C22_Witness ==
    /\ StyleGuideReturned
    /\ response = << "a" >>
    /\ GuideBeforeOverlay = _create_default_brand_guide(business_name)
    /\ "tertiary" \in Keys(color_preferences)
    /\ GuideBeforeOverlay.map["colors"].map["primary"] # JStr("#000")
    /\ returned.val.map["colors"].map["primary"] = JStr("#000")
    /\ "tertiary" \notin Keys(returned.val.map["colors"])
    /\ saved = "ok"
    /\ file = FileOf(SaveText(returned.val))


\* C23: once the external call has returned, no exception ends
\* generate_style_guide before it has written and returned a guide.
C23_GuideReturnedOnceCallReturned ==
    (op = "generate_style_guide" /\ api = "ok") => pc # "raised"


\* C24: when generate_website has returned True, the page files of two
\* distinct pages of the sitemap are at two distinct paths.
C24_DistinctPagesDistinctFiles ==
    (/\ op = "code_action_agent"
     /\ pc \in {"returned", "exited"}
     /\ returned = Done(JBool(TRUE)))
    => \A a, b \in Keys(sitemap) :
          a # b => PathJoin(PageDir(a), "page.tsx") # PathJoin(PageDir(b), "page.tsx")


\* A loaded document is empty: {} (what _load_json yields for a file it could
\* not read or parse), or an empty list, an empty string or null.
EmptyDocument(v) ==
    \/ IsMap(v) /\ Keys(v) = {}
    \/ v.kind = "list" /\ v.list = <<>>
    \/ v.kind = "str" /\ v.str = ""
    \/ v = JNull

BothLoaded == ~EmptyDocument(sitemap) /\ ~EmptyDocument(brand_guide)

\* The positions of generate_website after the load, and the order in which
\* it passes from one to another.
GenerationStages == {"ui_button", "ui_card", "ui_input", "pages", "sections", "cms", "cms_page"}

StageOrder ==
    { << "load", "ui_button" >>, << "load", "returned" >>,
      << "ui_button", "ui_card" >>, << "ui_card", "ui_input" >>,
      << "ui_input", "pages" >>,
      << "pages", "sections" >>, << "sections", "sections" >>, << "sections", "pages" >>,
      << "pages", "cms" >>, << "cms", "cms_page" >>, << "cms_page", "returned" >> }

ReturnedTrue == returned = Done(JBool(TRUE))

ReturnedFalse == returned = Done(JBool(FALSE))

\* C25, the state part: generate_website has returned False exactly when a
\* document loaded empty, and then no request was issued and no file written;
\* it is at a generation stage only with both documents non-empty; when it
\* has returned True every page's directory was made and, no write having
\* failed, every page file, the layout and the two CMS files exist.
C25_LoadGate ==
    op = "code_action_agent" =>
        /\ ReturnedFalse =>
              /\ ~BothLoaded
              /\ requests = 0
              /\ saved = "none"
              /\ files \in InitialSiteFiles
        /\ (pc \in GenerationStages \/ ReturnedTrue) => BothLoaded
        /\ (pc \in {"cms", "cms_page"} \/ ReturnedTrue) =>
              /\ pages = <<>>
              /\ \A p \in Keys(sitemap) : MadeDir(PageDir(p)) \in dirs
        /\ (ReturnedTrue /\ faults = 0) =>
              /\ \A p \in Keys(sitemap) : PathJoin(PageDir(p), "page.tsx") \in DOMAIN files
              /\ PathJoin(pages_dir, "layout.tsx") \in DOMAIN files
              /\ PathJoin(PathJoin(PathJoin(pages_dir, "api"), "cms"), "route.ts") \in DOMAIN files
              /\ PathJoin(PathJoin(pages_dir, "cms"), "page.tsx") \in DOMAIN files

\* C25, the step part: the load writes nothing, issues no request and goes on
\* exactly when both documents are non-empty; from there generate_website
\* passes through the UI components, the pages, the layout and the CMS files
\* in this order, a page file is written only after the page's last section,
\* the layout only after the last page.
C25_StagesInOrder ==
    op = "code_action_agent" =>
        /\ pc = "load" =>
              /\ files' = files
              /\ requests' = requests
              /\ saved' = saved
              /\ pc' = (IF ~EmptyDocument(sitemap') /\ ~EmptyDocument(brand_guide')
                        THEN "ui_button" ELSE "returned")
              /\ returned' = (IF pc' = "returned" THEN Done(JBool(FALSE)) ELSE returned)
        /\ (pc \in GenerationStages \cup {"load"} /\ pc' # "raised") =>
              << pc, pc' >> \in StageOrder
        /\ (pc = "sections" /\ pc' = "pages") =>
              /\ todo = <<>>
              /\ saved' = "ok" => files'[PathJoin(PageDir(page_name), "page.tsx")] = content'
        /\ (pc = "pages" /\ pc' = "sections") => pages # <<>>
        /\ (pc = "pages" /\ pc' = "cms") =>
              /\ pages = <<>>
              /\ saved' = "ok" => files'[PathJoin(pages_dir, "layout.tsx")] = content'

\* C25: when sitemap.json or brand-guide.json loads empty, generate_website
\* returns False with no request issued and no file written; when both load
\* non-empty it generates the UI components, then every page (its sections
\* before its page file), then the layout, then the CMS files.
C25_EmptyLoadStopsElseStagesInOrder ==
    /\ []C25_LoadGate
    /\ [][C25_StagesInOrder]_vars

\* A website of two pages was generated to the end without a failed write.
C25_Witness ==
    /\ op = "code_action_agent"
    /\ pc = "returned"
    /\ ReturnedTrue
    /\ faults = 0
    /\ Cardinality(Keys(sitemap)) = 2
    /\ requests > 0
    /\ PathJoin(pages_dir, "layout.tsx") \in DOMAIN files

============================================================================
